---------------------------- MODULE Spec2Model ----------------------------
(***************************************************************************)
(* The frame-presentation examples of go-webgpu-examples as one state      *)
(* machine: InitState, the window callbacks, Render, the main loop's error *)
(* switch, Resize, and the deferred teardown, for the four example         *)
(* programs under src/ (tutorial4-challenge, the texture challenge of      *)
(* src/unnamed/part_000, tutorial6-challenge and the GLFW example carried  *)
(* in src/go.mod), plus the Texture helpers of tutorial9-models.           *)
(*                                                                         *)
(* GPU objects are tracked in a heap: `live` lists the objects that were   *)
(* created and not yet dropped, in acquisition order.  A Drop of an object *)
(* that is not live is recorded in `dbl`; a Drop of an object while an     *)
(* object acquired after it (`ord`) or created from it (`dep`) is live is  *)
(* recorded as a pair.                                                     *)
(***************************************************************************)
EXTENDS Integers, Sequences, FiniteSets, TLC

VARIABLES
    example,   \* which program runs
    pc,        \* position of main
    s,         \* the fields of State that hold GPU handles (NIL or PTR)
    sNil,      \* TRUE when main's / InitState's `s` is the nil *State
    config,    \* s.config: NIL or the SwapChainDescriptor
    size,      \* s.size (gamen examples)
    scene,     \* useComplex / isSpacePressed and the index counts
    winSize,   \* the window's current size, as the window system holds it
    closed,    \* the host asked to close (display destroyed / ShouldClose)
    host,      \* Destroy calls made on the display and on the window
    lastErr,   \* the error Render returned last (NoErr when nil)
    errStep,   \* the step of Render that raised lastErr
    initErr,   \* the step of InitState that failed ("none" when it did not)
    panicked,  \* main is unwinding from a panic
    live,      \* heap: live GPU objects, in acquisition order
    dbl,       \* heap: kinds that were dropped while not live
    ord,       \* heap: <<released, stillLive>> with stillLive acquired later
    dep,       \* heap: <<released, stillLive>> with stillLive created from it
    ev,        \* what the last step did: operation, arguments, GPU calls
    desc,      \* the descriptors the swap chain, framebuffer, pipeline were made with
    hist,      \* what happened since the last Render call returned
    tex,       \* the Texture under test (texture.go), outside the programs
    run,       \* the frames presented in a row since InitState returned, while
               \* no callback ran and no Render failed, and the swap chains
               \* created on the way (frames = -1 once something else happened)
    gen        \* the loop of InitState that fills challengeIndices
               \* (tutorial4), one statement at a time

vars == <<example, pc, s, sNil, config, size, scene, winSize, closed, host,
          lastErr, errStep, initErr, panicked, live, dbl, ord, dep, ev, desc, hist, tex,
          run, gen>>

----------------------------------------------------------------------------
(* Bounds and program constants *)

MaxDim == 1

MaxFrames == 10

InitialWidth == 640

InitialHeight == 480

NIL == "nil"

PTR == "ptr"

\* The widths and heights the window system reports after the start.
Dims == 0 .. MaxDim

PosDims == {d \in Dims : d > 0}

Gamen == {"tutorial4", "part000", "tutorial6"}

Examples == Gamen \cup {"glfw"}

----------------------------------------------------------------------------
(* Error messages are character sequences; strings.Contains is substring.  *)

MsgLost == <<"L","o","s","t">>

MsgOutdated == <<"O","u","t","d","a","t","e","d">>

MsgTimeout == <<"T","i","m","e","o","u","t">>

MsgOutOfMemory == <<"O","u","t","O","f","M","e","m","o","r","y">>

MsgDeviceLost == <<"D","e","v","i","c","e","L","o","s","t">>

MsgLostLower == <<"l","o","s","t">>

MsgOutdatedTimeout == MsgOutdated \o <<" ">> \o MsgTimeout

NoErr == <<>>

\* The failures the graphics API may report from a step of Render.
RenderErrors ==
    {MsgLost, MsgOutdated, MsgTimeout, MsgOutOfMemory, MsgDeviceLost,
     MsgLostLower, MsgOutdatedTimeout}

Contains(str, sub) ==
    \E i \in 1 .. (Len(str) - Len(sub) + 1) :
        SubSeq(str, i, i + Len(sub) - 1) = sub

----------------------------------------------------------------------------
(* The heap of GPU objects *)

Heap == [live |-> live, dbl |-> dbl, ord |-> ord, dep |-> dep, calls |-> <<>>]

\* The objects each kind of object is created from: the receiver of the
\* creating call and the handles its descriptor names.
Parents(k) ==
    CASE k = "surface" -> {"instance"}
      [] k = "adapter" -> {"instance", "surface"}
      [] k = "device" -> {"adapter"}
      [] k = "swapChain" -> {"device", "surface"}
      [] k = "shader" -> {"device"}
      [] k = "renderPipelineLayout" ->
            {"device", "textureBindGroupLayout", "cameraBindGroupLayout"}
      [] k = "renderPipeline" -> {"device", "shader", "renderPipelineLayout"}
      [] k = "pipeline" -> {"device", "shader"}
      [] k \in {"vertexBuffer", "indexBuffer", "challengeVertexBuffer",
                "challengeIndexBuffer", "cameraBuffer",
                "textureBindGroupLayout", "cameraBindGroupLayout",
                "msTexture"} -> {"device"}
      [] k = "multisampledFramebuffer" -> {"msTexture"}
      [] k = "diffuseBindGroup" ->
            {"device", "textureBindGroupLayout",
             "diffuseTexture.view", "diffuseTexture.sampler"}
      [] k = "cartoonBindGroup" ->
            {"device", "textureBindGroupLayout",
             "cartoonTexture.view", "cartoonTexture.sampler"}
      [] k = "cameraBindGroup" ->
            {"device", "cameraBindGroupLayout", "cameraBuffer"}
      [] k \in {"diffuseTexture.texture", "cartoonTexture.texture",
                "unit.texture"} -> {"device"}
      [] k = "diffuseTexture.view" -> {"diffuseTexture.texture"}
      [] k = "cartoonTexture.view" -> {"cartoonTexture.texture"}
      [] k = "unit.view" -> {"unit.texture"}
      [] k \in {"diffuseTexture.sampler", "cartoonTexture.sampler",
                "unit.sampler"} -> {"device"}
      [] k = "view" -> {"swapChain"}
      [] OTHER -> {}

Range(seq) == {seq[i] : i \in DOMAIN seq}

LastIndex(seq, k) ==
    LET hits == {i \in DOMAIN seq : seq[i] = k}
    IN  IF hits = {} THEN 0 ELSE CHOOSE i \in hits : \A j \in hits : j <= i

RemoveAt(seq, i) == SubSeq(seq, 1, i - 1) \o SubSeq(seq, i + 1, Len(seq))

\* A successful creating call.
Create(h, k) ==
    [h EXCEPT !.live = Append(@, k), !.calls = Append(@, <<"Create", k>>)]

\* A creating call that returns an error: nothing is acquired.
CreateFailed(h, k) ==
    [h EXCEPT !.calls = Append(@, <<"CreateFailed", k>>)]

\* k.Drop()
Drop(h, k) ==
    LET i == LastIndex(h.live, k)
        rest == RemoveAt(h.live, i)
    IN  IF i = 0
        THEN [h EXCEPT !.dbl = @ \cup {k},
                       !.calls = Append(@, <<"Drop", k>>)]
        ELSE [h EXCEPT
                !.live = rest,
                !.ord = @ \cup {<<k, h.live[j]>> : j \in (i + 1) .. Len(h.live)},
                !.dep = @ \cup {<<k, x>> : x \in {y \in Range(rest) : k \in Parents(y)}},
                !.calls = Append(@, <<"Drop", k>>)]

\* A call on the API that neither creates nor drops an object.
Call(h, op, arg) == [h EXCEPT !.calls = Append(@, <<op, arg>>)]

\* How often a run of calls made the call c.
Count(calls, c) == Cardinality({i \in DOMAIN calls : calls[i] = c})


----------------------------------------------------------------------------
(* texture.go *)

TexParts == <<"sampler", "view", "texture">>

TexKind(name, part) ==
    CASE name = "diffuseTexture" /\ part = "texture" -> "diffuseTexture.texture"
      [] name = "diffuseTexture" /\ part = "view" -> "diffuseTexture.view"
      [] name = "diffuseTexture" /\ part = "sampler" -> "diffuseTexture.sampler"
      [] name = "cartoonTexture" /\ part = "texture" -> "cartoonTexture.texture"
      [] name = "cartoonTexture" /\ part = "view" -> "cartoonTexture.view"
      [] name = "cartoonTexture" /\ part = "sampler" -> "cartoonTexture.sampler"
      [] name = "unit" /\ part = "texture" -> "unit.texture"
      [] name = "unit" /\ part = "view" -> "unit.view"
      [] name = "unit" /\ part = "sampler" -> "unit.sampler"

EmptyTexture == [texture |-> NIL, view |-> NIL, sampler |-> NIL]

\* The order in which Texture.Destroy visits the fields.
TextureDestroyOrder == TexParts

RECURSIVE TextureDestroyFrom(_, _, _, _)
TextureDestroyFrom(r, name, order, i) ==
    IF i > Len(order) THEN r
    ELSE LET part == order[i]
         IN  IF r.t[part] # NIL
             THEN TextureDestroyFrom(
                      [h |-> Drop(r.h, TexKind(name, part)),
                       t |-> [r.t EXCEPT ![part] = NIL]],
                      name, order, i + 1)
             ELSE TextureDestroyFrom(r, name, order, i + 1)

\* func (t *Texture) Destroy(): [h, t] after the call.
TextureDestroy(h, t, name) ==
    TextureDestroyFrom([h |-> h, t |-> t], name, TextureDestroyOrder, 1)

\* The deferred function of TextureFromImage and CreateDepthTexture:
\* on an error, t.Destroy() and t = nil.
TextureOnError(h, t, name, err) ==
    IF err # "none"
    THEN [h |-> TextureDestroy(h, t, name).h, t |-> EmptyTexture,
          tNil |-> TRUE, err |-> err]
    ELSE [h |-> h, t |-> t, tNil |-> FALSE, err |-> err]

\* TextureFromImage; fail names the call that returns an error, if any.
TextureFromImage(h, name, fail) ==
    IF fail = "texture"
    THEN TextureOnError(CreateFailed(h, TexKind(name, "texture")),
                        EmptyTexture, name, "texture")
    ELSE LET h1 == Create(h, TexKind(name, "texture"))
             h2 == Call(h1, "WriteTexture", TexKind(name, "texture"))
             h3 == Create(h2, TexKind(name, "view"))
             t3 == [EmptyTexture EXCEPT !.texture = PTR, !.view = PTR]
         IN  IF fail = "sampler"
             THEN TextureOnError(CreateFailed(h3, TexKind(name, "sampler")),
                                 t3, name, "sampler")
             ELSE TextureOnError(Create(h3, TexKind(name, "sampler")),
                                 [t3 EXCEPT !.sampler = PTR], name, "none")

\* TextureFromBytes and TextureFromPNGBytes: decode, then TextureFromImage.
TextureFromPNGBytes(h, name, fail) ==
    IF fail = "decode"
    THEN [h |-> h, t |-> EmptyTexture, tNil |-> TRUE, err |-> "decode"]
    ELSE TextureFromImage(h, name, fail)

\* CreateDepthTexture: as TextureFromImage, without the upload.
CreateDepthTexture(h, name, fail) ==
    IF fail = "texture"
    THEN TextureOnError(CreateFailed(h, TexKind(name, "texture")),
                        EmptyTexture, name, "texture")
    ELSE LET h1 == Create(h, TexKind(name, "texture"))
             h3 == Create(h1, TexKind(name, "view"))
             t3 == [EmptyTexture EXCEPT !.texture = PTR, !.view = PTR]
         IN  IF fail = "sampler"
             THEN TextureOnError(CreateFailed(h3, TexKind(name, "sampler")),
                                 t3, name, "sampler")
             ELSE TextureOnError(Create(h3, TexKind(name, "sampler")),
                                 [t3 EXCEPT !.sampler = PTR], name, "none")

TexFails == {"decode", "texture", "sampler"}

----------------------------------------------------------------------------
(* State and InitState *)

Fields ==
    {"instance", "surface", "device", "queue", "swapChain", "renderPipeline",
     "pipeline", "vertexBuffer", "indexBuffer", "challengeVertexBuffer",
     "challengeIndexBuffer", "diffuseTexture", "diffuseBindGroup",
     "cartoonTexture", "cartoonBindGroup", "cameraBuffer", "cameraBindGroup",
     "multisampledFramebuffer",
     "diffuseTexture.texture", "diffuseTexture.view", "diffuseTexture.sampler",
     "cartoonTexture.texture", "cartoonTexture.view", "cartoonTexture.sampler"}

\* s = &State{}
EmptyState == [f \in Fields |-> NIL]

TextureFields == {"diffuseTexture", "cartoonTexture"}

Formats == {"BGRA8Unorm", "RGBA8Unorm"}

NoDesc ==
    [swapChain |-> <<>>, pipelineFormat |-> NIL, msfb |-> <<>>, aspect |-> <<>>]

St(k, own, fail, via) == [k |-> k, own |-> own, fail |-> fail, via |-> via]

\* The creating calls of InitState in program order: the object, whether it
\* is stored in State or held in a local with a deferred Drop, whether the
\* call can return an error, and how the object is made.
InitSteps(ex) ==
    CASE ex = "tutorial4" ->
        << St("instance", "local", FALSE, "create"),
           St("surface", "state", FALSE, "create"),
           St("adapter", "local", TRUE, "create"),
           St("device", "state", TRUE, "create"),
           St("swapChain", "state", TRUE, "create"),
           St("shader", "local", TRUE, "create"),
           St("renderPipelineLayout", "local", TRUE, "create"),
           St("renderPipeline", "state", TRUE, "create"),
           St("vertexBuffer", "state", TRUE, "create"),
           St("indexBuffer", "state", TRUE, "create"),
           St("challengeVertexBuffer", "state", TRUE, "create"),
           St("challengeIndexBuffer", "state", TRUE, "create") >>
      [] ex = "part000" ->
        << St("instance", "local", FALSE, "create"),
           St("surface", "state", FALSE, "create"),
           St("adapter", "local", TRUE, "create"),
           St("device", "state", TRUE, "create"),
           St("swapChain", "state", TRUE, "create"),
           St("textureBindGroupLayout", "local", TRUE, "create"),
           St("diffuseTexture", "state", TRUE, "texture"),
           St("diffuseBindGroup", "state", TRUE, "create"),
           St("cartoonTexture", "state", TRUE, "texture"),
           St("cartoonBindGroup", "state", TRUE, "create"),
           St("shader", "local", TRUE, "create"),
           St("renderPipelineLayout", "local", TRUE, "create"),
           St("renderPipeline", "state", TRUE, "create"),
           St("vertexBuffer", "state", TRUE, "create"),
           St("indexBuffer", "state", TRUE, "create") >>
      [] ex = "tutorial6" ->
        << St("instance", "local", FALSE, "create"),
           St("surface", "state", FALSE, "create"),
           St("adapter", "local", TRUE, "create"),
           St("device", "state", TRUE, "create"),
           St("swapChain", "state", TRUE, "create"),
           St("diffuseTexture", "state", TRUE, "texture"),
           St("textureBindGroupLayout", "local", TRUE, "create"),
           St("diffuseBindGroup", "state", TRUE, "create"),
           St("cameraBuffer", "state", TRUE, "create"),
           St("cameraBindGroupLayout", "local", TRUE, "create"),
           St("cameraBindGroup", "state", TRUE, "create"),
           St("shader", "local", TRUE, "create"),
           St("renderPipelineLayout", "local", TRUE, "create"),
           St("renderPipeline", "state", TRUE, "create"),
           St("vertexBuffer", "state", TRUE, "create"),
           St("indexBuffer", "state", TRUE, "create") >>
      [] ex = "glfw" ->
        << St("instance", "state", FALSE, "create"),
           St("surface", "state", FALSE, "create"),
           St("adapter", "local", TRUE, "create"),
           St("device", "state", TRUE, "create"),
           St("shader", "local", TRUE, "create"),
           St("swapChain", "state", TRUE, "create"),
           St("pipeline", "state", TRUE, "create"),
           St("multisampledFramebuffer", "state", TRUE, "msfb") >>

\* The fields State.Destroy visits, in the order of its if statements.
DestroyOrder(ex) ==
    CASE ex = "tutorial4" ->
        << "challengeIndexBuffer", "challengeVertexBuffer", "indexBuffer",
           "vertexBuffer", "renderPipeline", "swapChain", "queue",
           "device", "surface" >>
      [] ex = "part000" ->
        << "indexBuffer", "vertexBuffer", "renderPipeline", "cartoonBindGroup",
           "cartoonTexture", "diffuseBindGroup", "diffuseTexture", "swapChain",
           "queue", "device", "surface" >>
      [] ex = "tutorial6" ->
        << "indexBuffer", "vertexBuffer", "renderPipeline", "cameraBindGroup",
           "cameraBuffer", "diffuseBindGroup", "diffuseTexture", "swapChain",
           "queue", "device", "surface" >>
      [] ex = "glfw" ->
        << "multisampledFramebuffer", "pipeline", "swapChain", "queue",
           "device", "surface", "instance" >>

\* The Texture struct a *Texture field of State points to.
TextureOf(st, f) ==
    [part \in {"texture", "view", "sampler"} |-> st[TexKind(f, part)]]

SetTexture(st, f, t) ==
    [st EXCEPT ![TexKind(f, "texture")] = t.texture,
               ![TexKind(f, "view")] = t.view,
               ![TexKind(f, "sampler")] = t.sampler]

\* Variant: the field is released but keeps its pointer.
DestroyFieldKeep(r, f) ==
    IF r.s[f] = NIL THEN r
    ELSE IF f = "queue" THEN [r EXCEPT !.s[f] = NIL]
    ELSE IF f \in TextureFields
    THEN LET d == TextureDestroy(r.h, TextureOf(r.s, f), f)
         IN  [h |-> d.h, s |-> [SetTexture(r.s, f, d.t) EXCEPT ![f] = NIL]]
    ELSE [h |-> Drop(r.h, f), s |-> r.s]

\* One if statement of State.Destroy: release the field when it is not nil,
\* then set it to nil.  The queue is only set to nil.
DestroyField(r, f) ==
    IF r.s[f] = NIL THEN r
    ELSE IF f = "queue" THEN [r EXCEPT !.s[f] = NIL]
    ELSE IF f \in TextureFields
    THEN LET d == TextureDestroy(r.h, TextureOf(r.s, f), f)
         IN  [h |-> d.h, s |-> [SetTexture(r.s, f, d.t) EXCEPT ![f] = NIL]]
    ELSE [h |-> Drop(r.h, f), s |-> [r.s EXCEPT ![f] = NIL]]

\* Variant: Destroy visits its fields last to first.
RECURSIVE DestroyFromBackward(_, _, _)
DestroyFromBackward(r, order, i) ==
    IF i > Len(order) THEN r
    ELSE DestroyFromBackward(DestroyField(r, order[Len(order) + 1 - i]),
                             order, i + 1)

RECURSIVE DestroyFrom(_, _, _)
DestroyFrom(r, order, i) ==
    IF i > Len(order) THEN r
    ELSE DestroyFrom(DestroyField(r, order[i]), order, i + 1)

\* func (s *State) Destroy(): [h, s] after the call.
Destroy(ex, h, st) == DestroyFrom([h |-> h, s |-> st], DestroyOrder(ex), 1)

\* getMultisampledFramebuffer: the texture is dropped by the deferred call
\* once its view exists.
GetMultisampledFramebuffer(h, fail) ==
    IF fail
    THEN [h |-> CreateFailed(h, "msTexture"), ok |-> FALSE]
    ELSE [h |-> Drop(Create(Create(h, "msTexture"), "multisampledFramebuffer"),
                     "msTexture"),
          ok |-> TRUE]

\* s.config = &wgpu.SwapChainDescriptor{...}: tutorial4 takes the present and
\* alpha modes the surface lists first, the others ask for Fifo and leave the
\* alpha mode at its zero value.
MakeConfig(ex, w, h, fmt) ==
    [Usage |-> "RenderAttachment", Format |-> fmt, Width |-> w, Height |-> h,
     PresentMode |-> IF ex = "tutorial4" THEN "PresentModes[0]" ELSE "Fifo",
     AlphaMode |-> IF ex = "tutorial4" THEN "AlphaModes[0]" ELSE "Auto"]

\* One creating call of InitState that succeeds.
InitStepOk(r, step) ==
    LET k == step.k
        cfg == r.config
    IN  CASE step.via = "texture" ->
              LET t == TextureFromPNGBytes(r.h, k, "none")
              IN  [r EXCEPT !.h = t.h,
                            !.s = [SetTexture(r.s, k, t.t) EXCEPT ![k] = PTR]]
          [] step.via = "msfb" ->
              [r EXCEPT !.h = GetMultisampledFramebuffer(r.h, FALSE).h,
                        !.s[k] = PTR,
                        !.desc.msfb = <<cfg.Width, cfg.Height, cfg.Format>>]
          [] OTHER ->
              [r EXCEPT
                 !.h = Create(r.h, k),
                 !.s = IF step.own = "state"
                       THEN IF k = "device"
                            THEN [r.s EXCEPT ![k] = PTR, !["queue"] = PTR]
                            ELSE [r.s EXCEPT ![k] = PTR]
                       ELSE r.s,
                 !.defers = IF step.own = "local" THEN <<k>> \o @ ELSE @,
                 !.desc = IF k = "swapChain"
                          THEN [@ EXCEPT !.swapChain =
                                   <<cfg.Width, cfg.Height, cfg.Format>>]
                          ELSE IF k \in {"renderPipeline", "pipeline"}
                          THEN [@ EXCEPT !.pipelineFormat = cfg.Format]
                          ELSE IF k = "cameraBuffer"
                          THEN [@ EXCEPT !.aspect = <<cfg.Width, cfg.Height>>]
                          ELSE @]

\* One creating call of InitState that returns an error: return s, err.
InitStepFail(r, step, texFail) ==
    LET k == step.k
    IN  CASE step.via = "texture" ->
              [r EXCEPT !.h = TextureFromPNGBytes(r.h, k, texFail).h,
                        !.err = k]
          [] step.via = "msfb" ->
              [r EXCEPT !.h = GetMultisampledFramebuffer(r.h, TRUE).h,
                        !.err = k]
          [] OTHER -> [r EXCEPT !.h = CreateFailed(r.h, k), !.err = k]

RECURSIVE InitRun(_, _, _, _, _)
InitRun(r, steps, i, failAt, in) ==
    IF i > Len(steps) \/ r.err # "none" THEN r
    ELSE LET step == steps[i]
             \* s.config is built right before the swap chain is created
             r0 == IF step.k = "swapChain"
                   THEN [r EXCEPT !.config = MakeConfig(r.ex, in.w, in.h, in.fmt)]
                   ELSE r
         IN  InitRun(IF i = failAt
                     THEN InitStepFail(r0, step, in.texFail)
                     ELSE InitStepOk(r0, step),
                     steps, i + 1, failAt, in)

RECURSIVE DropAll(_, _, _)
DropAll(h, ks, i) ==
    IF i > Len(ks) THEN h ELSE DropAll(Drop(h, ks[i]), ks, i + 1)

\* Variant: on an error InitState returns nil without destroying s.
InitDefersLeak(ex, r) ==
    LET h1 == DropAll(r.h, r.defers, 1)
    IN  IF r.err # "none"
        THEN [r EXCEPT !.h = h1, !.sNil = TRUE, !.defers = <<>>]
        ELSE [r EXCEPT !.h = h1, !.defers = <<>>]

\* The deferred calls of InitState, last registered first: the Drop of each
\* local, then the function that destroys s and returns nil on an error.
InitDefers(ex, r) ==
    LET h1 == DropAll(r.h, r.defers, 1)
    IN  IF r.err # "none"
        THEN LET d == Destroy(ex, h1, r.s)
             IN  [r EXCEPT !.h = d.h, !.s = d.s, !.sNil = TRUE,
                           !.config = NIL, !.defers = <<>>]
        ELSE [r EXCEPT !.h = h1, !.defers = <<>>]

\* InitState(window): failAt is the creating call that returns an error
\* (0: none); in holds the window's size, the surface's preferred format and
\* the call that fails inside a texture load.
InitState(ex, h, failAt, in) ==
    InitDefers(ex,
        InitRun([h |-> h, s |-> EmptyState, sNil |-> FALSE, config |-> NIL,
                 desc |-> NoDesc, defers |-> <<>>, err |-> "none", ex |-> ex],
                InitSteps(ex), 1, failAt, in))

----------------------------------------------------------------------------
(* Resize and Render *)

\* Variant: the guard lets a size through when one dimension is positive.
ResizeGuardEither(w, h) == w > 0 \/ h > 0

\* Variant: the guard also turns away a size of one pixel.
ResizeGuardStrict(w, h) == w > 1 /\ h > 1

\* if width > 0 && height > 0
ResizeGuard(w, h) == w > 0 /\ h > 0

\* Variant: Resize creates the new swap chain without dropping the old one.
ResizeBodyKeepOld(ex, r, w, h, failSC, failFB) ==
    LET cfg == [r.config EXCEPT !.Width = w, !.Height = h]
        r1 == [r EXCEPT !.config = cfg,
                        !.size = IF ex \in Gamen THEN <<w, h>> ELSE @]
    IN  IF failSC
        THEN [r1 EXCEPT !.h = CreateFailed(r1.h, "swapChain"),
                        !.s["swapChain"] = NIL, !.panic = TRUE]
        ELSE LET r3 == [r1 EXCEPT
                          !.h = Create(r1.h, "swapChain"),
                          !.s["swapChain"] = PTR,
                          !.desc.swapChain = <<cfg.Width, cfg.Height, cfg.Format>>]
             IN  IF ex = "tutorial6"
                 THEN [r3 EXCEPT !.desc.aspect = <<w, h>>]
                 ELSE IF ex = "glfw"
                 THEN LET h4 == Drop(r3.h, "multisampledFramebuffer")
                          fb == GetMultisampledFramebuffer(h4, failFB)
                      IN  IF failFB
                          THEN [r3 EXCEPT !.h = fb.h,
                                          !.s["multisampledFramebuffer"] = NIL,
                                          !.panic = TRUE]
                          ELSE [r3 EXCEPT
                                  !.h = fb.h,
                                  !.s["multisampledFramebuffer"] = PTR,
                                  !.desc.msfb =
                                      <<cfg.Width, cfg.Height, cfg.Format>>]
                 ELSE r3

\* Variant: Resize rebuilds the swap chain and keeps the old framebuffer.
ResizeBodyKeepFramebuffer(ex, r, w, h, failSC, failFB) ==
    LET cfg == [r.config EXCEPT !.Width = w, !.Height = h]
        r1 == [r EXCEPT !.config = cfg,
                        !.size = IF ex \in Gamen THEN <<w, h>> ELSE @]
        h2 == IF r1.s["swapChain"] # NIL THEN Drop(r1.h, "swapChain") ELSE r1.h
    IN  IF failSC
        THEN [r1 EXCEPT !.h = CreateFailed(h2, "swapChain"),
                        !.s["swapChain"] = NIL, !.panic = TRUE]
        ELSE LET r3 == [r1 EXCEPT
                          !.h = Create(h2, "swapChain"),
                          !.s["swapChain"] = PTR,
                          !.desc.swapChain = <<cfg.Width, cfg.Height, cfg.Format>>]
             IN  IF ex = "tutorial6"
                 THEN [r3 EXCEPT !.desc.aspect = <<w, h>>]
                 ELSE r3

\* Variant: Resize returns when a creating call fails, without a panic.
ResizeBodyNoPanic(ex, r, w, h, failSC, failFB) ==
    LET cfg == [r.config EXCEPT !.Width = w, !.Height = h]
        r1 == [r EXCEPT !.config = cfg,
                        !.size = IF ex \in Gamen THEN <<w, h>> ELSE @]
        h2 == IF r1.s["swapChain"] # NIL THEN Drop(r1.h, "swapChain") ELSE r1.h
    IN  IF failSC
        THEN [r1 EXCEPT !.h = CreateFailed(h2, "swapChain"),
                        !.s["swapChain"] = NIL]
        ELSE LET r3 == [r1 EXCEPT
                          !.h = Create(h2, "swapChain"),
                          !.s["swapChain"] = PTR,
                          !.desc.swapChain = <<cfg.Width, cfg.Height, cfg.Format>>]
             IN  IF ex = "tutorial6"
                 THEN [r3 EXCEPT !.desc.aspect = <<w, h>>]
                 ELSE IF ex = "glfw"
                 THEN LET h4 == Drop(r3.h, "multisampledFramebuffer")
                          fb == GetMultisampledFramebuffer(h4, failFB)
                      IN  IF failFB
                          THEN [r3 EXCEPT !.h = fb.h,
                                          !.s["multisampledFramebuffer"] = NIL]
                          ELSE [r3 EXCEPT
                                  !.h = fb.h,
                                  !.s["multisampledFramebuffer"] = PTR,
                                  !.desc.msfb =
                                      <<cfg.Width, cfg.Height, cfg.Format>>]
                 ELSE r3

\* Variant: Resize asks the surface for its format again and gets another.
ResizeBodyNewFormat(ex, r, w, h, failSC, failFB) ==
    LET cfg == [r.config EXCEPT !.Width = w, !.Height = h,
                                !.Format = "BGRA8Unorm"]
        r1 == [r EXCEPT !.config = cfg,
                        !.size = IF ex \in Gamen THEN <<w, h>> ELSE @]
        h2 == IF r1.s["swapChain"] # NIL THEN Drop(r1.h, "swapChain") ELSE r1.h
    IN  IF failSC
        THEN [r1 EXCEPT !.h = CreateFailed(h2, "swapChain"),
                        !.s["swapChain"] = NIL, !.panic = TRUE]
        ELSE LET r3 == [r1 EXCEPT
                          !.h = Create(h2, "swapChain"),
                          !.s["swapChain"] = PTR,
                          !.desc.swapChain = <<cfg.Width, cfg.Height, cfg.Format>>]
             IN  IF ex = "tutorial6"
                 THEN [r3 EXCEPT !.desc.aspect = <<w, h>>]
                 ELSE IF ex = "glfw"
                 THEN LET h4 == Drop(r3.h, "multisampledFramebuffer")
                          fb == GetMultisampledFramebuffer(h4, failFB)
                      IN  IF failFB
                          THEN [r3 EXCEPT !.h = fb.h,
                                          !.s["multisampledFramebuffer"] = NIL,
                                          !.panic = TRUE]
                          ELSE [r3 EXCEPT
                                  !.h = fb.h,
                                  !.s["multisampledFramebuffer"] = PTR,
                                  !.desc.msfb =
                                      <<cfg.Width, cfg.Height, cfg.Format>>]
                 ELSE r3

\* The body of Resize's if statement.  failSC, failFB: CreateSwapChain,
\* getMultisampledFramebuffer return an error, and Resize panics.  The sizes
\* that pass the guard are positive and far below 2^32, where uint32(width)
\* is width itself.
ResizeBody(ex, r, w, h, failSC, failFB) ==
    LET cfg == [r.config EXCEPT !.Width = w, !.Height = h]
        r1 == [r EXCEPT !.config = cfg,
                        !.size = IF ex \in Gamen THEN <<w, h>> ELSE @]
        h2 == IF r1.s["swapChain"] # NIL THEN Drop(r1.h, "swapChain") ELSE r1.h
    IN  IF failSC
        THEN [r1 EXCEPT !.h = CreateFailed(h2, "swapChain"),
                        !.s["swapChain"] = NIL, !.panic = TRUE]
        ELSE LET r3 == [r1 EXCEPT
                          !.h = Create(h2, "swapChain"),
                          !.s["swapChain"] = PTR,
                          !.desc.swapChain = <<cfg.Width, cfg.Height, cfg.Format>>]
             IN  IF ex = "tutorial6"
                 THEN [r3 EXCEPT !.desc.aspect = <<w, h>>]
                 ELSE IF ex = "glfw"
                 THEN LET h4 == Drop(r3.h, "multisampledFramebuffer")
                          fb == GetMultisampledFramebuffer(h4, failFB)
                      IN  IF failFB
                          THEN [r3 EXCEPT !.h = fb.h,
                                          !.s["multisampledFramebuffer"] = NIL,
                                          !.panic = TRUE]
                          ELSE [r3 EXCEPT
                                  !.h = fb.h,
                                  !.s["multisampledFramebuffer"] = PTR,
                                  !.desc.msfb =
                                      <<cfg.Width, cfg.Height, cfg.Format>>]
                 ELSE r3

\* func (s *State) Resize: the state after the call.
Resize(ex, r, w, h, failSC, failFB) ==
    IF ResizeGuard(w, h) THEN ResizeBody(ex, r, w, h, failSC, failFB) ELSE r

\* The render pass Render records once it has a view and an encoder.
RenderPass(ex, h, sc) ==
    LET h1 == Call(h, "BeginRenderPass",
                   IF ex = "glfw" THEN "multisampledFramebuffer" ELSE "view")
        h2 == Call(h1, "SetPipeline",
                   IF ex = "glfw" THEN "pipeline" ELSE "renderPipeline")
        h3 == CASE ex = "tutorial4" ->
                    IF sc.space
                    THEN Call(Call(h2, "SetVertexBuffer", "challengeVertexBuffer"),
                              "SetIndexBuffer", "challengeIndexBuffer")
                    ELSE Call(Call(h2, "SetVertexBuffer", "vertexBuffer"),
                              "SetIndexBuffer", "indexBuffer")
                [] ex = "part000" ->
                    Call(Call(Call(h2, "SetBindGroup",
                                   IF sc.space THEN "cartoonBindGroup"
                                   ELSE "diffuseBindGroup"),
                              "SetVertexBuffer", "vertexBuffer"),
                         "SetIndexBuffer", "indexBuffer")
                [] ex = "tutorial6" ->
                    Call(Call(Call(Call(h2, "SetBindGroup", "diffuseBindGroup"),
                                   "SetBindGroup", "cameraBindGroup"),
                              "SetVertexBuffer", "vertexBuffer"),
                         "SetIndexBuffer", "indexBuffer")
                [] OTHER -> h2
        h4 == Call(h3, IF ex = "glfw" THEN "Draw" ELSE "DrawIndexed", "1")
    IN  Call(h4, "End", "renderPass")

\* The count Render passes to Draw / DrawIndexed.
DrawCount(ex, sc) ==
    CASE ex = "glfw" -> 3
      [] ex = "tutorial4" /\ sc.space -> sc.numChallengeIndices
      [] OTHER -> sc.numIndices

\* Variant: Render submits the frame and returns without presenting it.
RenderNoPresent(ex, h, sc, acq, enc) ==
    LET h0 == Call(h, "GetCurrentTextureView", "swapChain")
    IN  IF acq # NoErr
        THEN [h |-> CreateFailed(h0, "view"), err |-> acq, step |-> "acquire",
              draw |-> 0]
        ELSE LET h1 == Create(h0, "view")
             IN  IF enc # NoErr
                 THEN [h |-> Drop(CreateFailed(h1, "encoder"), "view"),
                       err |-> enc, step |-> "encoder", draw |-> 0]
                 ELSE LET h2 == RenderPass(ex, Call(h1, "CreateCommandEncoder",
                                                    "encoder"), sc)
                          h3 == Call(h2, "Submit", "queue")
                      IN  [h |-> Drop(h3, "view"), err |-> NoErr,
                           step |-> "none", draw |-> DrawCount(ex, sc)]

\* Variant: Render goes on to draw and present when acquisition failed.
RenderDrawsAnyway(ex, h, sc, acq, enc) ==
    LET h0 == Call(h, "GetCurrentTextureView", "swapChain")
    IN  IF acq # NoErr
        THEN LET h2 == RenderPass(ex, Call(CreateFailed(h0, "view"),
                                           "CreateCommandEncoder", "encoder"), sc)
             IN  [h |-> Call(Call(h2, "Submit", "queue"), "Present", "swapChain"),
                  err |-> acq, step |-> "acquire", draw |-> DrawCount(ex, sc)]
        ELSE LET h1 == Create(h0, "view")
             IN  IF enc # NoErr
                 THEN [h |-> Drop(CreateFailed(h1, "encoder"), "view"),
                       err |-> enc, step |-> "encoder", draw |-> 0]
                 ELSE LET h2 == RenderPass(ex, Call(h1, "CreateCommandEncoder",
                                                    "encoder"), sc)
                          h3 == Call(Call(h2, "Submit", "queue"),
                                     "Present", "swapChain")
                      IN  [h |-> Drop(h3, "view"), err |-> NoErr,
                           step |-> "none", draw |-> DrawCount(ex, sc)]

\* Variant: Render returns the encoder's error without releasing the view.
RenderLeaksView(ex, h, sc, acq, enc) ==
    LET h0 == Call(h, "GetCurrentTextureView", "swapChain")
    IN  IF acq # NoErr
        THEN [h |-> CreateFailed(h0, "view"), err |-> acq, step |-> "acquire",
              draw |-> 0]
        ELSE LET h1 == Create(h0, "view")
             IN  IF enc # NoErr
                 THEN [h |-> CreateFailed(h1, "encoder"),
                       err |-> enc, step |-> "encoder", draw |-> 0]
                 ELSE LET h2 == RenderPass(ex, Call(h1, "CreateCommandEncoder",
                                                    "encoder"), sc)
                          h3 == Call(Call(h2, "Submit", "queue"),
                                     "Present", "swapChain")
                      IN  [h |-> Drop(h3, "view"), err |-> NoErr,
                           step |-> "none", draw |-> DrawCount(ex, sc)]

\* func (s *State) Render() error.  acq / enc: the error returned by
\* GetCurrentTextureView / CreateCommandEncoder (NoErr: none).
Render(ex, h, sc, acq, enc) ==
    LET h0 == Call(h, "GetCurrentTextureView", "swapChain")
    IN  IF acq # NoErr
        THEN [h |-> CreateFailed(h0, "view"), err |-> acq, step |-> "acquire",
              draw |-> 0]
        ELSE LET h1 == Create(h0, "view")
             IN  IF enc # NoErr
                 THEN [h |-> Drop(CreateFailed(h1, "encoder"), "view"),
                       err |-> enc, step |-> "encoder", draw |-> 0]
                 ELSE LET h2 == RenderPass(ex, Call(h1, "CreateCommandEncoder",
                                                    "encoder"), sc)
                          h3 == Call(Call(h2, "Submit", "queue"),
                                     "Present", "swapChain")
                      IN  [h |-> Drop(h3, "view"), err |-> NoErr,
                           step |-> "none", draw |-> DrawCount(ex, sc)]

----------------------------------------------------------------------------
(* main *)

NumIndices == 9

\* The challenge geometry InitState generates: a fan of triangles over the
\* vertices of a circle, three indices a triangle.
NumVertices == 100

NumTriangles == NumVertices - 2

LenChallengeIndices == NumTriangles * 3

Ev(op, w, h, origin, calls, draw) ==
    [op |-> op, w |-> w, h |-> h, origin |-> origin, calls |-> calls,
     draw |-> draw]

\* Since the last Render call returned: whether it failed, which of the three
\* substrings its message held, the Resize calls the loop made to recover,
\* and whether a swap chain was created.
NoHist == [failed |-> FALSE, tokens |-> {}, resizes |-> 0, rebuilt |-> FALSE]

Tokens(errstr) ==
    {n \in {"Lost", "Outdated", "Timeout"} :
        Contains(errstr, CASE n = "Lost" -> MsgLost
                           [] n = "Outdated" -> MsgOutdated
                           [] n = "Timeout" -> MsgTimeout)}

NoRun == [frames |-> -1, swapChains |-> 0]

IdleTex == [pc |-> "idle", fn |-> "none", t |-> EmptyTexture, tNil |-> TRUE,
            err |-> "none"]

\* Where the loop continues: the GLFW loop tests ShouldClose first, the gamen
\* loops go straight into Poll.
LoopTop(ex) == IF ex = "glfw" THEN "check" ELSE "events"

\* The window's size when the program starts: glfw.CreateWindow(640, 480)
\* in the GLFW example, some positive size in the gamen examples.
InitialSizes(ex) ==
    IF ex = "glfw" THEN {<<InitialWidth, InitialHeight>>}
    ELSE (PosDims \X PosDims) \cup {<<InitialWidth, InitialHeight>>}

\* uint16 arithmetic wraps at 2^16.
Uint16 == 65536

ToUint16(n) == n % Uint16

\* var challengeIndices [numTriangles * 3]uint16: the valid positions.
ChallengeSlots == 0 .. LenChallengeIndices - 1

\* Before the loop: the array holds zeroes; written, wrapped record which
\* slots were assigned and whether i++ ever wrapped.
NoGen ==
    [pc |-> "idle", i |-> 0, index |-> 0, k |-> 0,
     challengeIndices |-> [j \in ChallengeSlots |-> 0],
     written |-> {}, wrapped |-> FALSE]

\* Variant: the loop runs while i <= numTriangles+1.
LoopConditionInclusive(i) == i <= ToUint16(NumTriangles + 1)

\* i < numTriangles+1, the constant converted to uint16
LoopCondition(i) == i < ToUint16(NumTriangles + 1)

\* The value the k-th statement of the body stores: i + 1, i, 0.
ChallengeValue(k, i) ==
    CASE k = 0 -> ToUint16(i + 1)
      [] k = 1 -> i
      [] OTHER -> 0

Init ==
    /\ example \in Examples
    /\ pc = "start"
    /\ s = EmptyState
    /\ sNil = TRUE
    /\ config = NIL
    /\ size = <<0, 0>>
    /\ scene = [space |-> FALSE, numIndices |-> 0, numChallengeIndices |-> 0]
    /\ winSize \in InitialSizes(example)
    /\ closed = FALSE
    /\ host = [display |-> 0, window |-> 0]
    /\ lastErr = NoErr
    /\ errStep = "none"
    /\ initErr = "none"
    /\ panicked = FALSE
    /\ live = <<>>
    /\ dbl = {}
    /\ ord = {}
    /\ dep = {}
    /\ ev = Ev("none", 0, 0, "none", <<>>, 0)
    /\ desc = NoDesc
    /\ hist = NoHist
    /\ tex = IdleTex
    /\ run = NoRun
    /\ gen = NoGen

SetHeap(h) ==
    /\ live' = h.live
    /\ dbl' = h.dbl
    /\ ord' = h.ord
    /\ dep' = h.dep

\* The creating calls of InitState that may return an error (0: none does).
FailPoints(ex) ==
    {0} \cup {i \in 1 .. Len(InitSteps(ex)) : InitSteps(ex)[i].fail}

\* The calls that may fail inside the texture load of step i.
TexFailsAt(ex, i) ==
    IF i = 0 THEN {"decode"}
    ELSE IF InitSteps(ex)[i].via = "texture" THEN TexFails ELSE {"decode"}

\* s, err := InitState(w); if err != nil { panic(err) }; defer s.Destroy()
InitStateCall ==
    /\ pc = "start"
    /\ tex.pc = "idle"
    /\ \E failAt \in FailPoints(example), fmt \in Formats :
       \E texFail \in TexFailsAt(example, failAt) :
        /\ LET r == InitState(example, Heap, failAt,
                              [w |-> winSize[1], h |-> winSize[2],
                               fmt |-> fmt, texFail |-> texFail])
           IN  /\ SetHeap(r.h)
               /\ s' = r.s
               /\ sNil' = r.sNil
               /\ config' = r.config
               /\ desc' = r.desc
               /\ initErr' = r.err
               /\ panicked' = (r.err # "none")
               /\ pc' = IF r.err # "none" THEN "unwind" ELSE LoopTop(example)
               /\ ev' = Ev("InitState", winSize[1], winSize[2], "main",
                           r.h.calls, 0)
    /\ size' = IF example \in Gamen THEN winSize ELSE size
    /\ scene' = IF example \in Gamen /\ initErr' = "none"
                THEN [scene EXCEPT !.numIndices = NumIndices]
                ELSE scene
    /\ UNCHANGED <<example, winSize, closed, host, lastErr, errStep, hist, tex>>
    /\ UNCHANGED gen
    /\ run' = IF initErr' = "none"
              THEN [frames |-> 0,
                    swapChains |-> Count(ev'.calls, <<"Create", "swapChain">>)]
              ELSE NoRun

\* Variant: the loop's test never sees the close flag.
LoopCheckForever ==
    /\ pc = "check"
    /\ pc' = "events"
    /\ ev' = Ev("LoopCheck", 0, 0, "main", <<>>, 0)
    /\ UNCHANGED <<example, s, sNil, config, size, scene, winSize, closed, host,
                   lastErr, errStep, initErr, panicked, live, dbl, ord, dep,
                   desc, hist, tex, run, gen>>

\* for !window.ShouldClose() (GLFW)
LoopCheck ==
    /\ pc = "check"
    /\ pc' = IF closed THEN "unwind" ELSE "events"
    /\ ev' = Ev("LoopCheck", 0, 0, "main", <<>>, 0)
    /\ UNCHANGED <<example, s, sNil, config, size, scene, winSize, closed, host,
                   lastErr, errStep, initErr, panicked, live, dbl, ord, dep,
                   desc, hist, tex>>
    /\ UNCHANGED gen
    /\ UNCHANGED run

ResizeInput == [h |-> Heap, s |-> s, config |-> config, size |-> size,
                desc |-> desc, panic |-> FALSE]

\* The ways the device may reject the new configuration inside Resize.
ResizeFailures(ex) ==
    IF ex = "glfw" THEN {"none", "swapChain", "framebuffer"}
    ELSE {"none", "swapChain"}

\* A call of s.Resize(w, h) from `origin`, and what main does after it.
ResizeCall(w, h, origin, next) ==
    \E fm \in ResizeFailures(example) :
        /\ ~ResizeGuard(w, h) => fm = "none"
        /\ LET r == Resize(example, ResizeInput, w, h,
                           fm = "swapChain", fm = "framebuffer")
           IN  /\ SetHeap(r.h)
               /\ s' = r.s
               /\ config' = r.config
               /\ size' = r.size
               /\ desc' = r.desc
               /\ panicked' = r.panic
               /\ pc' = IF r.panic THEN "unwind" ELSE next
               /\ ev' = Ev("Resize", w, h, origin, r.h.calls, 0)
               /\ hist' = [hist EXCEPT
                             !.resizes = IF origin = "recover" THEN @ + 1 ELSE @,
                             !.rebuilt = @ \/ (\E i \in DOMAIN r.h.calls :
                                 r.h.calls[i] = <<"Create", "swapChain">>)]

\* The resized / size callback, run by Poll / PollEvents.
EvResized ==
    /\ pc = "events"
    /\ ~closed
    /\ \E w \in Dims, h \in Dims :
        /\ winSize' = <<w, h>>
        /\ ResizeCall(w, h, "callback", "events")
    /\ UNCHANGED <<example, sNil, scene, closed, host, lastErr, errStep,
                   initErr, tex>>
    /\ UNCHANGED gen
    /\ run' = NoRun

\* The keyboard callback.
EvKey ==
    /\ pc = "events"
    /\ ~closed
    /\ \E key \in {"Space", "Other"}, st \in {"Pressed", "Released"} :
        /\ scene' = IF example \in {"tutorial4", "part000"} /\ key = "Space"
                    THEN [scene EXCEPT !.space = (st = "Pressed")]
                    ELSE scene
        /\ ev' = Ev("Key", 0, 0, "callback", <<>>, 0)
    /\ UNCHANGED <<example, pc, s, sNil, config, size, winSize, closed, host,
                   lastErr, errStep, initErr, panicked, live, dbl, ord, dep,
                   desc, hist, tex>>
    /\ UNCHANGED gen
    /\ run' = NoRun

\* The host asks to close: the gamen callback destroys the display, GLFW
\* raises the window's ShouldClose flag.
EvClose ==
    /\ pc = "events"
    /\ ~closed
    /\ closed' = TRUE
    /\ host' = IF example \in Gamen
               THEN [host EXCEPT !.display = @ + 1]
               ELSE host
    /\ ev' = Ev("CloseRequested", 0, 0, "callback",
                IF example \in Gamen THEN << <<"Destroy", "display">> >> ELSE <<>>,
                0)
    /\ UNCHANGED <<example, pc, s, sNil, config, size, scene, winSize,
                   lastErr, errStep, initErr, panicked, live, dbl, ord, dep,
                   desc, hist, tex>>
    /\ UNCHANGED gen
    /\ run' = NoRun

\* d.Poll() / glfw.PollEvents() returns.
PollReturn ==
    /\ pc = "events"
    /\ pc' = IF example \in Gamen /\ closed THEN "unwind" ELSE "render"
    /\ ev' = Ev("Poll", 0, 0, "main", <<>>, 0)
    /\ UNCHANGED <<example, s, sNil, config, size, scene, winSize, closed, host,
                   lastErr, errStep, initErr, panicked, live, dbl, ord, dep,
                   desc, hist, tex>>
    /\ UNCHANGED gen
    /\ UNCHANGED run

\* err := s.Render() (after s.Update() in tutorial6)
RenderCall ==
    /\ pc = "render"
    /\ \E acq \in RenderErrors \cup {NoErr}, enc \in RenderErrors \cup {NoErr} :
        /\ acq # NoErr => enc = NoErr
        /\ LET h0 == IF example = "tutorial6"
                     THEN Call(Heap, "WriteBuffer", "cameraBuffer")
                     ELSE Heap
               r == Render(example, h0, scene, acq, enc)
           IN  /\ SetHeap(r.h)
               /\ lastErr' = r.err
               /\ errStep' = r.step
               /\ pc' = IF r.err = NoErr THEN LoopTop(example) ELSE "classify"
               /\ ev' = Ev("Render", 0, 0, "main", r.h.calls, r.draw)
               /\ hist' = [NoHist EXCEPT !.failed = (r.err # NoErr),
                                         !.tokens = Tokens(r.err)]
    /\ UNCHANGED <<example, s, sNil, config, size, scene, winSize, closed, host,
                   initErr, panicked, desc, tex>>
    /\ UNCHANGED gen
    /\ run' = IF run.frames >= 0 /\ run.frames < MaxFrames /\ lastErr' = NoErr
              THEN [frames |-> run.frames + 1,
                    swapChains |-> run.swapChains +
                        Count(ev'.calls, <<"Create", "swapChain">>)]
              ELSE NoRun

\* Variant: the switch has no "Outdated" case.
ClassifyOutdatedFatal(errstr) ==
    IF Contains(errstr, MsgLost) THEN "resize"
    ELSE IF Contains(errstr, MsgTimeout) THEN "retry"
    ELSE "panic"

\* Variant: the "Timeout" case falls into the Resize of the cases above it.
ClassifyTimeoutResizes(errstr) ==
    IF Contains(errstr, MsgLost) THEN "resize"
    ELSE IF Contains(errstr, MsgOutdated) THEN "resize"
    ELSE IF Contains(errstr, MsgTimeout) THEN "resize"
    ELSE "panic"

\* Variant: the default case logs the error and carries on.
ClassifyDefaultRetry(errstr) ==
    IF Contains(errstr, MsgLost) THEN "resize"
    ELSE IF Contains(errstr, MsgOutdated) THEN "resize"
    ELSE "retry"

\* The switch on errstr in the main loop.
Classify(errstr) ==
    IF Contains(errstr, MsgLost) THEN "resize"
    ELSE IF Contains(errstr, MsgOutdated) THEN "resize"
    ELSE IF Contains(errstr, MsgTimeout) THEN "retry"
    ELSE "panic"

ClassifyErr ==
    /\ pc = "classify"
    /\ LET c == Classify(lastErr)
       IN  /\ pc' = CASE c = "resize" -> "resize"
                      [] c = "retry" -> LoopTop(example)
                      [] OTHER -> "unwind"
           /\ panicked' = (c = "panic")
           \* err is scoped to the loop body: it is gone when the body ends
           /\ lastErr' = IF c = "retry" THEN NoErr ELSE lastErr
           /\ errStep' = IF c = "retry" THEN "none" ELSE errStep
    /\ ev' = Ev("Classify", 0, 0, "main", <<>>, 0)
    /\ UNCHANGED <<example, s, sNil, config, size, scene, winSize, closed, host,
                   initErr, live, dbl, ord, dep, desc, hist, tex>>
    /\ UNCHANGED gen
    /\ run' = NoRun

\* The size the loop passes to Resize when it recovers: s.size in the gamen
\* examples, window.GetSize() in the GLFW example.
RecoverSize(ex) == IF ex = "glfw" THEN winSize ELSE size

\* s.Resize(...) in the Lost and Outdated cases.
RecoverResize ==
    /\ pc = "resize"
    /\ ResizeCall(RecoverSize(example)[1], RecoverSize(example)[2], "recover",
                  LoopTop(example))
    \* err is scoped to the loop body: it is gone when the body ends
    /\ lastErr' = IF panicked' THEN lastErr ELSE NoErr
    /\ errStep' = IF panicked' THEN errStep ELSE "none"
    /\ UNCHANGED <<example, sNil, scene, winSize, closed, host, initErr, tex>>
    /\ UNCHANGED gen
    /\ run' = NoRun

\* The deferred calls of main, run when the loop ends or main panics:
\* s.Destroy() (once InitState has succeeded), the window's Destroy, the
\* display's Destroy / glfw.Terminate().
RunDefers ==
    /\ pc = "unwind"
    /\ LET d == IF sNil THEN [h |-> Heap, s |-> s]
                ELSE Destroy(example, Heap, s)
           h1 == Call(d.h, "Destroy", "window")
           h2 == Call(h1, IF example = "glfw" THEN "Terminate" ELSE "Destroy",
                      "display")
       IN  /\ SetHeap(h2)
           /\ s' = d.s
           /\ ev' = Ev("RunDefers", 0, 0, "main", h2.calls, 0)
    /\ config' = IF sNil THEN config ELSE NIL
    /\ host' = [display |-> host.display + 1, window |-> host.window + 1]
    /\ pc' = "done"
    /\ UNCHANGED <<example, sNil, size, scene, winSize, closed, lastErr,
                   errStep, initErr, panicked, desc, hist, tex>>
    /\ UNCHANGED gen
    /\ run' = NoRun

Next ==
    \/ InitStateCall
    \/ LoopCheck
    \/ EvResized
    \/ EvKey
    \/ EvClose
    \/ PollReturn
    \/ RenderCall
    \/ ClassifyErr
    \/ RecoverResize
    \/ RunDefers

Spec == Init /\ [][Next]_vars

----------------------------------------------------------------------------
(* Calls made from outside the programs: a second Destroy on a State that  *)
(* main has torn down, and the Texture constructors and Texture.Destroy.   *)

\* s.Destroy() once more, on the State main (or InitState) has destroyed.
DestroyAgain ==
    /\ pc = "done"
    /\ LET d == Destroy(example, Heap, s)
       IN  /\ SetHeap(d.h)
           /\ s' = d.s
           /\ ev' = Ev("DestroyAgain", 0, 0, "unit", d.h.calls, 0)
    /\ config' = NIL
    /\ UNCHANGED <<example, pc, sNil, size, scene, winSize, closed, host,
                   lastErr, errStep, initErr, panicked, desc, hist, tex>>
    /\ UNCHANGED gen
    /\ UNCHANGED run

TextureFromBytes(h, name, fail) == TextureFromPNGBytes(h, name, fail)

TexFns ==
    {"TextureFromBytes", "TextureFromPNGBytes", "TextureFromImage",
     "CreateDepthTexture"}

\* The calls that may return an error inside each constructor.
TexFailsOf(fn) ==
    IF fn \in {"TextureFromBytes", "TextureFromPNGBytes"}
    THEN TexFails \cup {"none"}
    ELSE {"texture", "sampler", "none"}

TexApply(fn, h, fail) ==
    CASE fn = "TextureFromBytes" -> TextureFromBytes(h, "unit", fail)
      [] fn = "TextureFromPNGBytes" -> TextureFromPNGBytes(h, "unit", fail)
      [] fn = "TextureFromImage" -> TextureFromImage(h, "unit", fail)
      [] fn = "CreateDepthTexture" -> CreateDepthTexture(h, "unit", fail)

\* t, err := <constructor>(device, ...)
TexCall ==
    /\ pc = "start"
    /\ tex.pc = "idle"
    /\ \E fn \in TexFns : \E fail \in TexFailsOf(fn) :
        LET r == TexApply(fn, Heap, fail)
        IN  /\ SetHeap(r.h)
            /\ tex' = [pc |-> "made", fn |-> fn, t |-> r.t, tNil |-> r.tNil,
                       err |-> r.err]
            /\ ev' = Ev(fn, 0, 0, "unit", r.h.calls, 0)
    /\ UNCHANGED <<example, pc, s, sNil, config, size, scene, winSize, closed,
                   host, lastErr, errStep, initErr, panicked, desc, hist>>
    /\ UNCHANGED gen
    /\ UNCHANGED run

\* t.Destroy(), on the Texture the constructor built.
TexDestroy ==
    /\ tex.pc \in {"made", "destroyed"}
    /\ LET d == TextureDestroy(Heap, tex.t, "unit")
       IN  /\ SetHeap(d.h)
           /\ tex' = [tex EXCEPT !.pc = "destroyed", !.t = d.t]
           /\ ev' = Ev("Texture.Destroy", 0, 0, "unit", d.h.calls, 0)
    /\ UNCHANGED <<example, pc, s, sNil, config, size, scene, winSize, closed,
                   host, lastErr, errStep, initErr, panicked, desc, hist>>
    /\ UNCHANGED gen
    /\ UNCHANGED run

NextUnits ==
    \/ Next
    \/ DestroyAgain
    \/ TexCall
    \/ TexDestroy

SpecUnits == Init /\ [][NextUnits]_vars

----------------------------------------------------------------------------
(* The index generation of tutorial4's InitState, statement by statement.  *)

progVars == <<example, pc, s, sNil, config, size, scene, winSize, closed, host,
              lastErr, errStep, initErr, panicked, live, dbl, ord, dep, ev,
              desc, hist, tex, run>>

\* index := 0; i := uint16(1)
GenStart ==
    /\ example = "tutorial4"
    /\ gen.pc = "idle"
    /\ gen' = [gen EXCEPT !.pc = "test", !.index = 0, !.i = 1]
    /\ UNCHANGED progVars

\* i < numTriangles+1
GenTest ==
    /\ gen.pc = "test"
    /\ gen' = [gen EXCEPT !.pc = IF LoopCondition(gen.i) THEN "body" ELSE "done"]
    /\ UNCHANGED progVars

\* challengeIndices[index+k] = ..., k = 0, 1, 2; an index outside the array
\* is a run-time panic.
GenWrite ==
    /\ gen.pc = "body"
    /\ LET pos == gen.index + gen.k
       IN  gen' = IF pos \notin ChallengeSlots
                  THEN [gen EXCEPT !.pc = "panic"]
                  ELSE [gen EXCEPT
                          !.challengeIndices[pos] = ChallengeValue(gen.k, gen.i),
                          !.written = @ \cup {pos},
                          !.k = IF gen.k < 2 THEN gen.k + 1 ELSE 0,
                          !.pc = IF gen.k < 2 THEN "body" ELSE "advance"]
    /\ UNCHANGED progVars

\* index += 3
GenAdvance ==
    /\ gen.pc = "advance"
    /\ gen' = [gen EXCEPT !.index = @ + 3, !.pc = "post"]
    /\ UNCHANGED progVars

\* i++
GenPost ==
    /\ gen.pc = "post"
    /\ gen' = [gen EXCEPT !.i = ToUint16(@ + 1),
                          !.wrapped = @ \/ gen.i + 1 >= Uint16,
                          !.pc = "test"]
    /\ UNCHANGED progVars

NextIndices ==
    \/ GenStart
    \/ GenTest
    \/ GenWrite
    \/ GenAdvance
    \/ GenPost

SpecIndices == Init /\ [][NextIndices]_vars

----------------------------------------------------------------------------
(* Properties *)

IsDrop(c) == c[1] = "Drop"

IsGpuCall(c) == c[1] \in {"Drop", "Create", "CreateFailed"}

\* The size the loop last knew before it recovers: the configured size in the
\* gamen examples, the window's size in the GLFW example.
LastKnownSize ==
    IF example = "glfw" THEN winSize ELSE <<config.Width, config.Height>>

\* C1: Resize with a width or a height of 0 or less leaves the swap-chain
\* configuration, the stored size, the handles of State and the heap as they
\* were, and makes no GPU call: no Drop, no CreateSwapChain, no framebuffer.
C1_ResizeNonPositiveIsNoOp ==
    [][(ev'.op = "Resize" /\ (ev'.w <= 0 \/ ev'.h <= 0)) =>
          /\ config' = config
          /\ size' = size
          /\ s' = s
          /\ desc' = desc
          /\ live' = live
          /\ dbl' = dbl
          /\ ev'.calls = <<>>
          /\ ~panicked']_vars

C1_Witness ==
    /\ ev.op = "Resize"
    /\ ev.w = 0
    /\ ev.h > 0
    /\ ev.origin = "callback"
    /\ s["swapChain"] = PTR
    /\ config.Width > 0

C3_RebuiltBeforeRetry ==
    (pc = "render" /\ hist.failed /\ hist.tokens \cap {"Lost", "Outdated"} # {})
        => hist.rebuilt

\* C4: a Render error whose text contains "Timeout" and neither "Lost" nor
\* "Outdated" sends the loop back to its top with no Resize, no GPU call and
\* no change to State, its configuration or the heap.
C4_TimeoutRetriesUnchanged ==
    /\ [][(pc = "classify" /\ Tokens(lastErr) = {"Timeout"}) =>
             /\ pc' = LoopTop(example)
             /\ ~panicked'
             /\ ev'.calls = <<>>
             /\ UNCHANGED <<s, sNil, config, size, scene, winSize, desc,
                            live, dbl, closed>>]_vars
    /\ []((hist.failed /\ hist.tokens = {"Timeout"}) => hist.resizes = 0)

C4_Witness ==
    /\ pc = "render"
    /\ hist.failed
    /\ hist.tokens = {"Timeout"}
    /\ hist.resizes = 0

\* C5: a Render error whose text contains none of "Lost", "Outdated",
\* "Timeout" makes main panic, and a panicking main only runs its deferred
\* calls: Render is not called again.
C5_UnrecognisedIsFatal ==
    /\ [][(pc = "classify" /\ Tokens(lastErr) = {}) =>
             (panicked' /\ pc' = "unwind")]_vars
    /\ [][panicked =>
             (panicked' /\ pc' \in {"unwind", "done"} /\ ev'.op # "Render")]_vars
    /\ [](panicked => pc \in {"unwind", "done"})

C5_Witness ==
    /\ pc = "done"
    /\ panicked
    /\ hist.failed
    /\ hist.tokens = {}
    /\ lastErr = MsgLostLower

\* C6 (as stated): the loop reaches its recovering Resize only for an error
\* of the acquisition step that does not report device loss.
C6_OnlyAcquisitionRecovers ==
    pc = "resize" => (errStep = "acquire" /\ ~Contains(lastErr, MsgDeviceLost))

\* Every object a run of calls created was dropped by it exactly once, and
\* it dropped nothing else.
Balanced(calls) ==
    \A i \in DOMAIN calls :
        IsGpuCall(calls[i]) =>
            Count(calls, <<"Create", calls[i][2]>>) =
                Count(calls, <<"Drop", calls[i][2]>>)

AllNil(st) == \A f \in Fields : st[f] = NIL

\* C7: when a creating call of InitState returns an error, InitState returns
\* a nil State, and every object it created, stored or local, was dropped
\* exactly once before it returned; the Texture constructors likewise return
\* a nil Texture with the texture and view they created dropped once.
C7_FailedInitReleasesAll ==
    /\ initErr # "none" =>
          /\ sNil
          /\ AllNil(s)
          /\ config = NIL
          /\ live = <<>>
          /\ dbl = {}
    /\ (ev.op = "InitState" /\ initErr # "none") => Balanced(ev.calls)
    /\ (tex.pc = "made" /\ tex.err # "none") =>
          /\ tex.tNil
          /\ tex.t = EmptyTexture
          /\ live = <<>>
          /\ dbl = {}
          /\ Balanced(ev.calls)
    /\ (tex.pc = "made" /\ tex.err = "none") =>
          (~tex.tNil /\ Len(live) = 3)

C7_Witness ==
    /\ example = "tutorial6"
    /\ ev.op = "InitState"
    /\ initErr = "indexBuffer"
    /\ Count(ev.calls, <<"Drop", "instance">>) = 1
    /\ Count(ev.calls, <<"Drop", "adapter">>) = 1
    /\ Count(ev.calls, <<"Drop", "diffuseTexture.view">>) = 1
    /\ Count(ev.calls, <<"Drop", "device">>) = 1
    /\ sNil

\* C8: a Destroy that follows a Destroy of the same State, or of the same
\* Texture, drops nothing: the first call left every handle nil, and no
\* object is ever dropped while it is not live.
C8_SecondDestroyDropsNothing ==
    /\ [][ev'.op = "DestroyAgain" =>
             /\ AllNil(s)
             /\ ev'.calls = <<>>
             /\ s' = s
             /\ live' = live
             /\ dbl' = dbl]_vars
    /\ [][(tex.pc = "destroyed" /\ ev'.op = "Texture.Destroy") =>
             /\ tex.t = EmptyTexture
             /\ ev'.calls = <<>>
             /\ tex' = tex
             /\ live' = live
             /\ dbl' = dbl]_vars
    /\ [](dbl = {})
    /\ []((pc = "done" \/ tex.pc = "destroyed") => live = <<>>)

C8_Witness ==
    /\ ev.op = "DestroyAgain"
    /\ example = "glfw"
    /\ initErr = "none"
    /\ desc.swapChain[1] = MaxDim
    /\ live = <<>>

\* C9: when main ends after InitState succeeded, by a close request, by a
\* panic on a Render error or by a panic inside Resize, no GPU object is
\* live, every handle of State is nil, and no object was dropped twice.
C9_EveryExitReleasesAll ==
    /\ dbl = {}
    /\ (pc = "done" /\ initErr = "none") =>
          /\ live = <<>>
          /\ AllNil(s)
          /\ config = NIL
          /\ Count(ev.calls, <<"Drop", "swapChain">>) <= 1
          /\ Count(ev.calls, <<"Drop", "multisampledFramebuffer">>) <= 1

C9_Witness ==
    /\ pc = "done"
    /\ example = "glfw"
    /\ initErr = "none"
    /\ panicked
    /\ ~hist.failed
    /\ ev.op = "RunDefers"
    /\ Count(ev.calls, <<"Drop", "swapChain">>) = 1
    /\ Count(ev.calls, <<"Drop", "multisampledFramebuffer">>) = 0

\* C10 (as stated): no object is dropped while an object acquired after it,
\* or created from it, is live.
C10_StrictReverseRelease == ord = {} /\ dep = {}

Reverse(seq) == [i \in 1 .. Len(seq) |-> seq[Len(seq) + 1 - i]]

\* The objects State owns, in the order InitState acquires them.
RECURSIVE OwnedFrom(_, _)
OwnedFrom(steps, i) ==
    IF i > Len(steps) THEN <<>>
    ELSE LET st == steps[i]
             here == IF st.own # "state" THEN <<>>
                     ELSE IF st.via = "texture"
                     THEN <<TexKind(st.k, "texture"), TexKind(st.k, "view"),
                            TexKind(st.k, "sampler")>>
                     ELSE <<st.k>>
         IN  here \o OwnedFrom(steps, i + 1)

Owned(ex) == OwnedFrom(InitSteps(ex), 1)

\* The owned objects a run of calls dropped, in the order of the drops.
OwnedDrops(ex, calls) ==
    LET d == SelectSeq(calls, LAMBDA c : IsDrop(c) /\ c[2] \in Range(Owned(ex)))
    IN  [i \in DOMAIN d |-> d[i][2]]

\* C10 (amended): the objects State owns are dropped in the reverse of the
\* order InitState acquired them, and none is dropped while an owned object
\* created from it is live.  The objects InitState holds in locals are
\* dropped when InitState returns: in the gamen examples the instance is
\* dropped while the surface made from it is live, and only the GLFW example,
\* which stores the instance in State, drops it last.
C10_OwnedReleasedInReverse ==
    /\ \A p \in dep :
          ~(p[1] \in Range(Owned(example)) /\ p[2] \in Range(Owned(example)))
    /\ ev.op \in {"InitState", "RunDefers", "DestroyAgain"} =>
          LET drops == OwnedDrops(example, ev.calls)
          IN  drops = SelectSeq(Reverse(Owned(example)),
                                LAMBDA k : k \in Range(drops))
    /\ (example \in Gamen /\ pc # "start") => <<"instance", "surface">> \in dep
    /\ example = "glfw" => \A p \in dep \cup ord : p[1] # "instance"

C10_Witness ==
    /\ example = "part000"
    /\ pc = "done"
    /\ initErr = "none"
    /\ ev.op = "RunDefers"
    /\ Len(OwnedDrops(example, ev.calls)) = Len(Owned(example))
    /\ <<"instance", "surface">> \in dep

\* The backend accepted every creating call of a run of calls.
Healthy(calls) == \A i \in DOMAIN calls : calls[i][1] # "CreateFailed"

\* C11: a Resize with a positive width and height that the backend accepts
\* leaves a swap chain created with exactly that width and height, which the
\* configuration holds; and a Render the backend accepts returns nil and
\* presents on the swap chain made for the configured width and height.
C11_ResizeThenRenderSucceeds ==
    /\ (ev.op = "Resize" /\ ev.w > 0 /\ ev.h > 0 /\ Healthy(ev.calls)) =>
          /\ ~panicked
          /\ config.Width = ev.w
          /\ config.Height = ev.h
          /\ example \in Gamen => size = <<ev.w, ev.h>>
          /\ s["swapChain"] = PTR
          /\ Count(ev.calls, <<"Create", "swapChain">>) = 1
          /\ desc.swapChain = <<ev.w, ev.h, config.Format>>
    /\ (ev.op = "Render" /\ Healthy(ev.calls)) =>
          /\ lastErr = NoErr
          /\ ~hist.failed
          /\ Count(ev.calls, <<"Present", "swapChain">>) = 1
          /\ s["swapChain"] = PTR
          /\ desc.swapChain = <<config.Width, config.Height, config.Format>>

C11_Witness ==
    /\ example = "glfw"
    /\ ev.op = "Render"
    /\ Healthy(ev.calls)
    /\ lastErr = NoErr
    /\ config.Width = MaxDim
    /\ config.Height = 1
    /\ desc.swapChain = <<MaxDim, 1, config.Format>>

\* C12: from a 640x480 window, as long as every Render returned nil and no
\* callback ran, up to ten frames in a row, each Render submitted and presented
\* one frame, and exactly one swap chain was created since the start, the
\* 640x480 one InitState made.
C12_TenFramesOneSwapChain ==
    (run.frames >= 0 /\ winSize = <<InitialWidth, InitialHeight>>) =>
        /\ run.frames <= MaxFrames
        /\ run.swapChains = 1
        /\ Count(live, "swapChain") = 1
        /\ desc.swapChain = <<InitialWidth, InitialHeight, config.Format>>
        /\ ~panicked
        /\ ev.op = "InitState" => Count(ev.calls, <<"Create", "swapChain">>) = 1
        /\ ev.op = "Render" =>
              /\ run.frames > 0
              /\ lastErr = NoErr
              /\ Count(ev.calls, <<"Create", "swapChain">>) = 0
              /\ Count(ev.calls, <<"Submit", "queue">>) = 1
              /\ Count(ev.calls, <<"Present", "swapChain">>) = 1

C12_Witness ==
    /\ example = "glfw"
    /\ winSize = <<InitialWidth, InitialHeight>>
    /\ ev.op = "Render"
    /\ run.frames = MaxFrames
    /\ run.swapChains = 1

\* A run of calls tried to create a swap chain.
Attempted(calls) ==
    Count(calls, <<"Create", "swapChain">>) +
        Count(calls, <<"CreateFailed", "swapChain">>) > 0

C14_RejectedResizeIsFatal ==
    /\ []((ev.op = "Resize" /\ ~Healthy(ev.calls)) =>
             (panicked /\ pc = "unwind"))
    /\ [][(panicked /\ ev.op = "Resize") =>
             (panicked' /\ pc' = "done" /\ ev'.op = "RunDefers")]_vars
    /\ [][pc = "done" => ev'.op \notin {"Render", "Resize"}]_vars

C14_Witness ==
    /\ example = "glfw"
    /\ ev.op = "Resize"
    /\ ev.origin = "recover"
    /\ Count(ev.calls, <<"CreateFailed", "msTexture">>) = 1
    /\ panicked
    /\ pc = "unwind"

\* C15 (as stated): no Render is called once the host has asked to close.
C15_NoRenderAfterClose == ~(closed /\ ev.op = "Render")

\* C15 (amended): once the host has asked to close, the gamen programs call
\* Render no more; the GLFW program calls it at most once more, in the loop
\* iteration whose PollEvents delivered the request, and whatever that Render
\* returns the loop polls no more events and ends at its next test.
C15_LoopEndsAfterClose ==
    /\ [][(closed /\ example \in Gamen) => ev'.op # "Render"]_vars
    /\ [][(closed /\ ev'.op = "Render") =>
             (example = "glfw" /\ ev.op = "Poll")]_vars
    /\ [][(closed /\ pc \notin {"events", "render"}) =>
             pc' \notin {"events", "render"}]_vars
    /\ [][(closed /\ pc = "render") => pc' \in {"check", "classify"}]_vars
    /\ [][(closed /\ pc = "check") => pc' = "unwind"]_vars
    /\ [][(closed /\ pc = "events") =>
             (ev'.op = "Poll" /\
              pc' = IF example = "glfw" THEN "render" ELSE "unwind")]_vars

C15_Witness ==
    /\ example = "glfw"
    /\ closed
    /\ pc = "done"
    /\ ~panicked
    /\ hist.failed
    /\ hist.tokens = {"Lost"}
    /\ hist.resizes = 1

\* The calls by which Render draws a frame.
DrawingCalls ==
    {"CreateCommandEncoder", "BeginRenderPass", "SetPipeline", "SetBindGroup",
     "SetVertexBuffer", "SetIndexBuffer", "Draw", "DrawIndexed", "End",
     "Submit", "Present"}

\* C16: a Render whose acquisition of the surface image failed returns that
\* error and has drawn nothing: it made no encoder, recorded no render pass,
\* submitted nothing and did not present.
C16_FailedAcquisitionDrawsNothing ==
    (ev.op = "Render" /\ errStep = "acquire") =>
        /\ lastErr # NoErr
        /\ hist.failed
        /\ ev.draw = 0
        /\ Count(ev.calls, <<"CreateFailed", "view">>) = 1
        /\ Count(ev.calls, <<"CreateFailed", "encoder">>) = 0
        /\ \A i \in DOMAIN ev.calls : ev.calls[i][1] \notin DrawingCalls

C16_Witness ==
    /\ example = "tutorial4"
    /\ ev.op = "Render"
    /\ errStep = "acquire"
    /\ lastErr = MsgTimeout
    /\ pc = "classify"

\* C17: a Render that acquired an image view dropped it exactly once, as its
\* last call, whether it presented the frame or returned the encoder's error;
\* a Render whose acquisition failed dropped no view; no view outlives Render.
C17_ViewReleasedOnce ==
    /\ Count(live, "view") = 0
    /\ "view" \notin dbl
    /\ ev.op = "Render" =>
          /\ errStep = "acquire" =>
                /\ Count(ev.calls, <<"Create", "view">>) = 0
                /\ Count(ev.calls, <<"Drop", "view">>) = 0
          /\ errStep \in {"encoder", "none"} =>
                /\ Count(ev.calls, <<"Create", "view">>) = 1
                /\ Count(ev.calls, <<"Drop", "view">>) = 1
                /\ ev.calls[Len(ev.calls)] = <<"Drop", "view">>
          /\ errStep = "none" =>
                Count(ev.calls, <<"Present", "swapChain">>) = 1

C17_Witness ==
    /\ example = "tutorial6"
    /\ ev.op = "Render"
    /\ errStep = "encoder"
    /\ Count(ev.calls, <<"Create", "view">>) = 1
    /\ Count(ev.calls, <<"Drop", "view">>) = 1
    /\ Count(ev.calls, <<"Present", "swapChain">>) = 0

\* C18: in the GLFW program, whenever Render is about to be called the
\* multisampled framebuffer is live and was made with the width, height and
\* format of the configuration, the same as the swap chain; an effective
\* Resize drops the old framebuffer and makes a new one.
C18_FramebufferMatchesConfig ==
    example = "glfw" =>
        /\ pc = "render" =>
              /\ s["multisampledFramebuffer"] = PTR
              /\ Count(live, "multisampledFramebuffer") = 1
              /\ desc.msfb = <<config.Width, config.Height, config.Format>>
              /\ desc.msfb = desc.swapChain
        /\ (ev.op = "Resize" /\ ev.w > 0 /\ ev.h > 0 /\ Healthy(ev.calls)) =>
              /\ Count(ev.calls, <<"Drop", "multisampledFramebuffer">>) = 1
              /\ Count(ev.calls, <<"Create", "multisampledFramebuffer">>) = 1
              /\ desc.msfb = <<ev.w, ev.h, config.Format>>

C18_Witness ==
    /\ example = "glfw"
    /\ pc = "render"
    /\ hist.rebuilt
    /\ desc.msfb = <<MaxDim, 1, "RGBA8Unorm">>
    /\ config.Width = MaxDim

\* C19 (as stated): in tutorial4 a Render with useComplex set binds the
\* challenge buffers and draws as many indices as InitState generated for
\* the challenge geometry; with useComplex clear it draws the pentagon's.
C19_ComplexDrawsChallengeIndices ==
    (example = "tutorial4" /\ ev.op = "Render" /\ lastErr = NoErr) =>
        IF scene.space
        THEN /\ Count(ev.calls, <<"SetIndexBuffer", "challengeIndexBuffer">>) = 1
             /\ ev.draw = LenChallengeIndices
        ELSE /\ Count(ev.calls, <<"SetIndexBuffer", "indexBuffer">>) = 1
             /\ ev.draw = NumIndices

\* C20: at most one swap chain is live at any time; whenever Render is
\* about to be called, and when it returns, State holds a swap chain that is
\* live; a Resize that passes its guard first drops the swap chain it finds,
\* then creates one, and either stores the new one or panics holding none.
C20_OneLiveSwapChain ==
    /\ Count(live, "swapChain") <= 1
    /\ s["swapChain"] = PTR <=> Count(live, "swapChain") = 1
    /\ (pc \in {"render", "classify", "resize"} \/ ev.op = "Render") =>
          (s["swapChain"] = PTR /\ ~panicked)
    /\ (ev.op = "Resize" /\ Attempted(ev.calls)) =>
          /\ ev.calls[1] = <<"Drop", "swapChain">>
          /\ ev.calls[2] \in {<<"Create", "swapChain">>,
                              <<"CreateFailed", "swapChain">>}
          /\ Count(ev.calls, <<"Drop", "swapChain">>) = 1
          /\ \/ /\ ev.calls[2] = <<"Create", "swapChain">>
                /\ s["swapChain"] = PTR
             \/ /\ ev.calls[2] = <<"CreateFailed", "swapChain">>
                /\ s["swapChain"] = NIL
                /\ panicked

C20_Witness ==
    /\ example = "tutorial4"
    /\ pc = "render"
    /\ hist.failed
    /\ hist.tokens = {"Lost"}
    /\ hist.rebuilt
    /\ s["swapChain"] = PTR
    /\ Count(live, "swapChain") = 1

\* The objects Resize may drop and create.
ResizedKinds == {"swapChain", "msTexture", "multisampledFramebuffer"}

\* C21: a Resize leaves the format, usage, present mode and alpha mode of the
\* configuration as InitState set them, touches no handle of State but the
\* swap chain and the framebuffer, makes GPU calls on those only, and leaves
\* the scene alone; so while the render pipeline exists its colour-target
\* format is the configuration's and the swap chain's.
C21_ResizeKeepsFormatAndPipeline ==
    /\ [][ev'.op = "Resize" =>
             /\ config'.Format = config.Format
             /\ config'.Usage = config.Usage
             /\ config'.PresentMode = config.PresentMode
             /\ config'.AlphaMode = config.AlphaMode
             /\ desc'.pipelineFormat = desc.pipelineFormat
             /\ \A f \in Fields \ {"swapChain", "multisampledFramebuffer"} :
                   s'[f] = s[f]
             /\ \A i \in DOMAIN ev'.calls : ev'.calls[i][2] \in ResizedKinds
             /\ scene' = scene
             /\ example # "tutorial6" => desc'.aspect = desc.aspect
             /\ example # "glfw" => desc'.msfb = desc.msfb]_vars
    /\ []((s["renderPipeline"] = PTR \/ s["pipeline"] = PTR) =>
             /\ desc.pipelineFormat = config.Format
             /\ desc.swapChain[3] = config.Format
             /\ config.Usage = "RenderAttachment")

C21_Witness ==
    /\ example = "tutorial6"
    /\ ev.op = "Resize"
    /\ Count(ev.calls, <<"Create", "swapChain">>) = 1
    /\ desc.aspect = <<MaxDim, 1>>
    /\ config.Format = "RGBA8Unorm"
    /\ desc.pipelineFormat = "RGBA8Unorm"
    /\ s["renderPipeline"] = PTR
    /\ s["cameraBindGroup"] = PTR

\* C22: in the gamen programs the display is never destroyed more than once,
\* it is destroyed only when the window is destroyed and no GPU object of
\* State is live, and once main has returned it has been destroyed once.
C22_DisplayDestroyedOnceAndLast ==
    example \in Gamen =>
        /\ host.display <= 1
        /\ host.display >= 1 => (host.window = 1 /\ live = <<>>)
        /\ pc = "done" => host.display = 1

\* C23: the loop never writes outside challengeIndices and its uint16 counter
\* never wraps; every index it stores is below numVertices; when it ends, all
\* 3 * (numVertices - 2) = 294 slots were written, the write position is 294,
\* and for i = 1 .. 98 the i-th triple is (i + 1, i, 0).
C23_TriangleFanInBounds ==
    /\ gen.pc # "panic"
    /\ ~gen.wrapped
    /\ gen.pc = "body" => gen.index + gen.k \in ChallengeSlots
    /\ gen.written \subseteq ChallengeSlots
    /\ \A j \in gen.written : gen.challengeIndices[j] < NumVertices
    /\ gen.pc = "done" =>
          /\ LenChallengeIndices = 294
          /\ gen.written = ChallengeSlots
          /\ gen.index = 294
          /\ \A i \in 1 .. 98 :
                /\ gen.challengeIndices[3 * (i - 1)] = i + 1
                /\ gen.challengeIndices[3 * (i - 1) + 1] = i
                /\ gen.challengeIndices[3 * (i - 1) + 2] = 0

C23_Witness ==
    /\ gen.pc = "done"
    /\ gen.index = 294
    /\ gen.i = 99
    /\ gen.challengeIndices[291] = 99
    /\ gen.challengeIndices[292] = 98
    /\ gen.challengeIndices[293] = 0
    /\ 293 \in gen.written

============================================================================
